---- MODULE Spec2Model ----
(***************************************************************************)
(* A model of the Pepper relay layer:                                      *)
(*   - pepper_bridge.py: the HTTP bridge that owns the legacy (NAOqi)      *)
(*     session (globals pepper_session, tts_service) and serves            *)
(*     /status, /, /speak and /reconnect;                                 *)
(*   - pepper_connector.py: the interactive connector (main, the three     *)
(*     loops, the relay helpers).                                          *)
(* Texts are sequences of one-character strings.                          *)
(***************************************************************************)
EXTENDS Integers, Sequences, FiniteSets, TLC

\* ------------------------------------------------------------------ bounds
\* Number of HTTP requests the clients of the bridge issue in one behaviour.
MaxRequests == 2
\* Number of input lines the operator types into one interactive loop.
MaxTurns == 2
\* Longest text given to the cleaning step taken alone.
MaxLen == 3
\* Longest history given to the prompt assembly taken alone.
MaxHist == 2

\* ------------------------------------------------------------------ texts
\* The characters the cleaning step names; every other character is itself.
NL       == "\n"
Star     == "*"
Hash     == "#"
Backtick == "bq"

\* text.replace(c, "") for a one-character c
RemoveChar(s, c) == SelectSeq(s, LAMBDA x : x # c)

RECURSIVE ReplaceDoubleNL(_)
\* text.replace("\n\n", ". "): leftmost, non-overlapping occurrences
ReplaceDoubleNL(s) ==
    IF Len(s) = 0 THEN << >>
    ELSE IF Len(s) >= 2 /\ s[1] = NL /\ s[2] = NL
         THEN <<".", " ">> \o ReplaceDoubleNL(SubSeq(s, 3, Len(s)))
         ELSE <<s[1]>> \o ReplaceDoubleNL(Tail(s))

RECURSIVE ReplaceNLKeepsBreak(_)
\* (a replace that puts "." before each newline and keeps the newline)
ReplaceNLKeepsBreak(s) ==
    IF Len(s) = 0 THEN << >>
    ELSE IF s[1] = NL
         THEN <<".", NL>> \o ReplaceNLKeepsBreak(Tail(s))
         ELSE <<s[1]>> \o ReplaceNLKeepsBreak(Tail(s))

RECURSIVE ReplaceNL(_)
\* text.replace("\n", ". ")
ReplaceNL(s) ==
    IF Len(s) = 0 THEN << >>
    ELSE IF s[1] = NL
         THEN <<".", " ">> \o ReplaceNL(Tail(s))
         ELSE <<s[1]>> \o ReplaceNL(Tail(s))

\* (a bridge that passes the text on as it came)
CleanTextVerbatim(text) == text

\* The cleaning step of make_pepper_speak of the bridge.
CleanText(text) ==
    ReplaceNL(ReplaceDoubleNL(
        RemoveChar(RemoveChar(RemoveChar(text, Star), Hash), Backtick)))

\* (a cleaning step that replaces single newlines before double ones)
ConnCleanTextSingleFirst(text) ==
    ReplaceDoubleNL(ReplaceNL(
        RemoveChar(RemoveChar(RemoveChar(text, Star), Hash), Backtick)))

\* The cleaning step of make_pepper_speak of the connector (the same two
\* lines as in the bridge).
ConnCleanText(text) ==
    ReplaceNL(ReplaceDoubleNL(
        RemoveChar(RemoveChar(RemoveChar(text, Star), Hash), Backtick)))

\* ------------------------------------------------------------------ bridge: requests
\* A character outside ASCII (json.loads gives unicode under Python 2.7).
NonAscii == "U+00E9"
IsAscii(text) == \A k \in 1..Len(text) : text[k] # NonAscii

\* Texts a client puts in the "text" field of a /speak body.
SpeakTexts == { <<"h", "i">>, <<Star, "a", NL, "b">>, <<NonAscii>> }

\* What the body of a POST is, as do_POST sees it:
\*   "empty"     no body (data = {})
\*   "badjson"   json.loads raises ValueError
\*   "nonobject" valid JSON that is no object (a list, null, a number)
\*   "object"    a JSON object; tkind says what its "text" member is:
\*                 "absent", "falsy" (0, null, false, []: not a string, falsy),
\*                 "truthy" (a non-string truthy value, e.g. 5) or "str",
\*                 a string, whose characters are in text.
Body(kind, tkind, text) == [kind |-> kind, tkind |-> tkind, text |-> text]
NoBody        == Body("empty", "absent", << >>)
BadJsonBody   == Body("badjson", "absent", << >>)
NonObjectBody == Body("nonobject", "absent", << >>)
ObjNoText     == Body("object", "absent", << >>)
ObjFalsyText  == Body("object", "falsy", << >>)
ObjTruthyText == Body("object", "truthy", << >>)
ObjText(t)    == Body("object", "str", t)

SpeakBodies ==
    { NoBody, BadJsonBody, NonObjectBody,
      ObjNoText, ObjFalsyText, ObjTruthyText, ObjText(<< >>) }
    \cup { ObjText(t) : t \in SpeakTexts }

OtherBodies == { NoBody, BadJsonBody, ObjNoText }

Request(method, path, body) == [method |-> method, path |-> path, body |-> body]

Requests ==
    { Request("GET", p, NoBody) : p \in {"/status", "/", "/other"} }
    \cup { Request("OPTIONS", p, NoBody) : p \in {"/status", "/other"} }
    \cup { Request("POST", "/speak", b) : b \in SpeakBodies }
    \cup { Request("POST", p, b) : p \in {"/reconnect", "/other"}, b \in OtherBodies }

NoRequest == Request("-", "-", NoBody)

\* data.get("text", "") of do_POST is falsy: absent, empty or a falsy value
TextIsFalsy(body) ==
    \/ body.tkind \in {"absent", "falsy"}
    \/ body.tkind = "str" /\ body.text = << >>

\* ------------------------------------------------------------------ bridge: responses
NoResp == [code |-> 0, body |-> "-"]
\* The handler raised: BaseHTTPServer logs the traceback and closes the
\* connection without a response; serve_forever goes on.
Dropped == [code |-> -1, body |-> "closed"]
Json(code, body) == [code |-> code, body |-> body]

\* (a /status that answers 503 while no session is held)
StatusRespDownIs503(connected) ==
    Json(IF connected THEN 200 ELSE 503,
         IF connected THEN "{status:ok,connected:true}"
                      ELSE "{status:ok,connected:false}")

StatusResp(connected) ==
    Json(200, IF connected THEN "{status:ok,connected:true}"
                           ELSE "{status:ok,connected:false}")
HelpResp        == Json(200, "{name:Pepper Bridge}")
OptionsResp     == Json(200, "")
NotFoundResp    == Json(404, "{error:Not found}")
InvalidJsonResp == Json(400, "{error:Invalid JSON}")
NoTextResp      == Json(400, "{error:No text provided}")
SpokenResp      == Json(200, "{status:ok,spoken:true}")
SpeakFailedResp == Json(500, "{error:Failed to speak}")
ReconnectedResp == Json(200, "{status:ok,connected:true}")
ConnFailedResp  == Json(500, "{error:Failed to connect}")

\* ------------------------------------------------------------------ bridge: state
MainThread == 0
ReqIds  == 1..MaxRequests
Threads == {MainThread} \cup ReqIds
\* Every connect attempt creates one qi.Session object.
Sessions == 1..(MaxRequests + 1)
None == 0

SayCall(handle, text, state) == [handle |-> handle, text |-> text, state |-> state]
NoSay == SayCall(None, << >>, "none")

\* How the legacy side answers one connect_to_pepper: the statement of the
\* try block that raises, or "ok" (the target is reachable).
ConnectOutcomes == {"ctor_raises", "connect_raises", "service_raises", "ok"}

VARIABLES
    pepper_session,   \* global pepper_session: None or a Session object
    tts_service,      \* global tts_service: None or the session it was got from
    sess,             \* each Session object: "none", "new", "up", "down"
    pc,               \* position of main (thread 0) and of each handler
    attempt,          \* outcome the legacy side gives each thread's connect
    reqs,             \* the request each id stands for
    pending,          \* connections waiting in the listen backlog, in order
    resp,             \* the response each request got
    say               \* the legacy say call each request made

bvars == <<pepper_session, tts_service, sess, pc, attempt, reqs, pending, resp, say>>

\* The connector (pepper_connector.py), a single sequential process.
VARIABLES
    cpc,                    \* position of main: "start", "resolve", "choose",
                            \* "press_enter", "loop_sim", "loop_robot",
                            \* "loop_bridge", "exit"
    pyMajor,                \* sys.version_info.major of the hosting runtime
    health,                 \* what test_ollama_connection met
    direct_probe,           \* what connect_to_pepper met
    bridge_probe,           \* what the GET /status of main met
    choice,                 \* the line main read from the operator, or "none"
    mode,                   \* the loop main entered
    session,                \* the Session main passes to run_with_robot
    conversation_history,   \* the list of the running loop
    turns,                  \* input lines read by the running loop
    prompts,                \* prompts posted to /api/generate, in order
    relays,                 \* relay calls and printed answers, in order
    last_gen,               \* what the latest POST /api/generate met
    response,               \* the local response of the running loop
    line,                   \* what the latest input("You: ") returned
    user_input,             \* the local user_input of the running loop
    probes                  \* the backends probed so far, in order

cvars == <<cpc, pyMajor, health, direct_probe, bridge_probe, choice, mode, session,
           conversation_history, turns, prompts, relays, last_gen, response,
           line, user_input, probes>>

\* The cleaning step and the prompt assembly taken alone, as functions of
\* their arguments.
VARIABLES
    spc,              \* the cleaning step: "off", "in", "cleaned", "recleaned"
    san_impl,         \* whose make_pepper_speak: "bridge" or "connector"
    san_in,           \* the argument text of make_pepper_speak
    san_out,          \* its local clean_text
    ppc,              \* the prompt assembly: "off", "in", "built"
    prompt_message,   \* the argument user_message of get_ollama_response
    prompt_history,   \* its argument conversation_history
    prompt_out        \* its local full_prompt

fvars == <<spc, san_impl, san_in, san_out, ppc, prompt_message, prompt_history, prompt_out>>

vars == <<bvars, cvars, fvars>>

BridgeInit ==
    /\ pepper_session = None
    /\ tts_service = None
    /\ sess = [s \in Sessions |-> "none"]
    /\ pc = [t \in Threads |-> IF t = MainThread THEN "conn_new" ELSE "idle"]
    /\ attempt = [t \in Threads |-> "none"]
    /\ reqs = [i \in ReqIds |-> NoRequest]
    /\ pending = << >>
    /\ resp = [i \in ReqIds |-> NoResp]
    /\ say = [i \in ReqIds |-> NoSay]

\* the bridge is not started
BridgeOff ==
    /\ pepper_session = None
    /\ tts_service = None
    /\ sess = [s \in Sessions |-> "none"]
    /\ pc = [t \in Threads |-> "off"]
    /\ attempt = [t \in Threads |-> "none"]
    /\ reqs = [i \in ReqIds |-> NoRequest]
    /\ pending = << >>
    /\ resp = [i \in ReqIds |-> NoResp]
    /\ say = [i \in ReqIds |-> NoSay]

\* ------------------------------------------------------------------ bridge: helpers
Active == { t \in ReqIds : pc[t] \notin {"idle", "done"} }
Serving == pc[MainThread] = "serving"

\* send_json_response and the end of the handler
Finish(t, r) ==
    /\ resp' = [resp EXCEPT ![t] = r]
    /\ pc' = [pc EXCEPT ![t] = "done"]

Goto(t, where) ==
    /\ pc' = [pc EXCEPT ![t] = where]
    /\ UNCHANGED resp

\* connect_to_pepper returns ok to its caller: main goes on to
\* run_http_server whatever the result, do_POST answers.
ConnectReturn(t, ok) ==
    IF t = MainThread
    THEN Goto(t, "serving")
    ELSE Finish(t, IF ok THEN ReconnectedResp ELSE ConnFailedResp)

FreshSession == CHOOSE s \in Sessions : sess[s] = "none" /\ \A u \in Sessions : u < s => sess[u] # "none"

\* ------------------------------------------------------------------ connect_to_pepper
\* pepper_session = qi.Session()
ConnNew(t) ==
    /\ pc[t] = "conn_new"
    /\ \E o \in ConnectOutcomes :
        /\ attempt' = [attempt EXCEPT ![t] = o]
        /\ IF o = "ctor_raises"
           THEN /\ ConnectReturn(t, FALSE)
                /\ UNCHANGED <<pepper_session, sess>>
           ELSE /\ pepper_session' = FreshSession
                /\ sess' = [sess EXCEPT ![FreshSession] = "new"]
                /\ Goto(t, "conn_connect")
    /\ UNCHANGED <<tts_service, reqs, pending, say, cvars, fvars>>

\* pepper_session.connect("tcp://...")
ConnConnect(t) ==
    /\ pc[t] = "conn_connect"
    /\ IF attempt[t] = "connect_raises"
       THEN /\ ConnectReturn(t, FALSE)
            /\ UNCHANGED sess
       ELSE /\ sess' = [sess EXCEPT ![pepper_session] = "up"]
            /\ Goto(t, "conn_service")
    /\ UNCHANGED <<pepper_session, tts_service, attempt, reqs, pending, say, cvars, fvars>>

\* tts_service = pepper_session.service("ALTextToSpeech"); return True
ConnService(t) ==
    /\ pc[t] = "conn_service"
    /\ IF attempt[t] = "service_raises"
       THEN /\ ConnectReturn(t, FALSE)
            /\ UNCHANGED tts_service
       ELSE /\ tts_service' = pepper_session
            /\ ConnectReturn(t, TRUE)
    /\ UNCHANGED <<pepper_session, sess, attempt, reqs, pending, say, cvars, fvars>>

\* ------------------------------------------------------------------ make_pepper_speak
\* The part of make_pepper_speak before the legacy call: TRUE when it
\* reaches tts_service.say.  It returns False at once when tts_service is
\* None; text.replace raises AttributeError on a non-string; formatting a
\* non-ASCII unicode into the progress line raises UnicodeEncodeError; both
\* are caught and give False.
ReachesSay(body) ==
    /\ tts_service # None
    /\ body.tkind = "str"
    /\ IsAscii(body.text)

\* (a do_POST that answers 200 whatever make_pepper_speak returned)
SpeakResultAlwaysOk(success) == SpokenResp

\* the answer of do_POST to what make_pepper_speak returned
SpeakResult(success) == IF success THEN SpokenResp ELSE SpeakFailedResp

\* tts_service.say(str(clean_text)) returns or raises
SayReturn(i) ==
    /\ pc[i] = "say_ret"
    /\ \E ok \in BOOLEAN :
        /\ ok => sess[say[i].handle] = "up"
        /\ say' = [say EXCEPT ![i].state = IF ok THEN "done" ELSE "raised"]
        /\ Finish(i, SpeakResult(ok))
    /\ UNCHANGED <<pepper_session, tts_service, sess, attempt, reqs, pending, cvars, fvars>>

\* ------------------------------------------------------------------ BridgeHandler
\* (a server that starts a thread per connection, as with ThreadingMixIn)
CanAcceptThreaded == TRUE

\* HTTPServer is the plain BaseHTTPServer class (no ThreadingMixIn):
\* serve_forever takes the next connection only when no handler is running.
CanAccept == Active = {}

Accepts(i) ==
    /\ Serving
    /\ pending # << >>
    /\ i = Head(pending)
    /\ pc[i] = "idle"
    /\ CanAccept
    /\ pending' = Tail(pending)

\* (a do_GET without the branch for "/")
GetRouteNoHelp(path) == IF path = "/status" THEN "status" ELSE "notfound"

\* if self.path == ... elif ... else of do_GET and of do_POST
GetRoute(path) ==
    IF path = "/status" THEN "status"
    ELSE IF path = "/" THEN "help"
    ELSE "notfound"

\* (a do_POST that takes every path but /speak as /reconnect)
PostRouteNoElse(path) == IF path = "/speak" THEN "speak" ELSE "reconnect"

PostRoute(path) ==
    IF path = "/speak" THEN "speak"
    ELSE IF path = "/reconnect" THEN "reconnect"
    ELSE "notfound"

DoOPTIONS(i) ==
    /\ Accepts(i)
    /\ reqs[i].method = "OPTIONS"
    /\ Finish(i, OptionsResp)
    /\ UNCHANGED <<pepper_session, tts_service, sess, attempt, reqs, say, cvars, fvars>>

DoGET(i) ==
    /\ Accepts(i)
    /\ reqs[i].method = "GET"
    /\ IF GetRoute(reqs[i].path) = "status"
       THEN Finish(i, StatusResp(pepper_session # None))
       ELSE IF GetRoute(reqs[i].path) = "help"
       THEN Finish(i, HelpResp)
       ELSE Finish(i, NotFoundResp)
    /\ UNCHANGED <<pepper_session, tts_service, sess, attempt, reqs, say, cvars, fvars>>

DoPOST(i) ==
    /\ Accepts(i)
    /\ reqs[i].method = "POST"
    /\ LET body == reqs[i].body IN
       IF body.kind = "badjson"
       THEN /\ Finish(i, InvalidJsonResp)
            /\ UNCHANGED say
       ELSE IF PostRoute(reqs[i].path) = "speak"
       THEN IF body.kind = "nonobject"
            THEN \* data.get raises AttributeError outside any try
                 /\ Finish(i, Dropped)
                 /\ UNCHANGED say
            ELSE IF TextIsFalsy(body)
            THEN /\ Finish(i, NoTextResp)
                 /\ UNCHANGED say
            ELSE IF ReachesSay(body)
            THEN /\ say' = [say EXCEPT ![i] =
                            SayCall(tts_service, CleanText(body.text), "calling")]
                 /\ Goto(i, "say_ret")
            ELSE /\ Finish(i, SpeakResult(FALSE))
                 /\ UNCHANGED say
       ELSE IF PostRoute(reqs[i].path) = "reconnect"
       THEN /\ Goto(i, "conn_new")
            /\ UNCHANGED say
       ELSE /\ Finish(i, NotFoundResp)
            /\ UNCHANGED say
    /\ UNCHANGED <<pepper_session, tts_service, sess, attempt, reqs, cvars, fvars>>

\* ------------------------------------------------------------------ bridge: environment
\* A client opens a connection and sends a request; it waits in the backlog.
ClientSend(i, r) ==
    /\ Serving
    /\ reqs[i] = NoRequest
    /\ \A j \in ReqIds : j < i => reqs[j] # NoRequest
    /\ reqs' = [reqs EXCEPT ![i] = r]
    /\ pending' = Append(pending, i)
    /\ UNCHANGED <<pepper_session, tts_service, sess, pc, attempt, resp, say, cvars, fvars>>

\* The legacy session can drop at any time.
SessionDrop(s) ==
    /\ sess[s] = "up"
    /\ sess' = [sess EXCEPT ![s] = "down"]
    /\ UNCHANGED <<pepper_session, tts_service, pc, attempt, reqs, pending, resp, say, cvars, fvars>>

BridgeNext ==
    \/ \E t \in Threads : ConnNew(t)
    \/ \E t \in Threads : ConnConnect(t)
    \/ \E t \in Threads : ConnService(t)
    \/ \E i \in ReqIds : DoOPTIONS(i)
    \/ \E i \in ReqIds : DoGET(i)
    \/ \E i \in ReqIds : DoPOST(i)
    \/ \E i \in ReqIds : SayReturn(i)
    \/ \E i \in ReqIds, r \in Requests : ClientSend(i, r)
    \/ \E s \in Sessions : SessionDrop(s)

\* ================================================================== the connector
\* ------------------------------------------------------------------ text helpers
IsSpace(c) == c \in {" ", NL}

RECURSIVE LStrip(_)
LStrip(s) == IF Len(s) > 0 /\ IsSpace(s[1]) THEN LStrip(Tail(s)) ELSE s

RECURSIVE RStrip(_)
RStrip(s) ==
    IF Len(s) > 0 /\ IsSpace(s[Len(s)]) THEN RStrip(SubSeq(s, 1, Len(s) - 1)) ELSE s

\* (a strip that leaves the string as it is)
StripNothing(s) == s

\* str.strip()
Strip(s) == RStrip(LStrip(s))

\* str.lower(), on the letters the inputs use
LowerChar(c) ==
    CASE c = "B" -> "b"
      [] c = "E" -> "e"
      [] c = "Q" -> "q"
      [] c = "X" -> "x"
      [] OTHER -> c
Lower(s) == [k \in 1..Len(s) |-> LowerChar(s[k])]

ExitWords == { <<"q", "u", "i", "t">>, <<"e", "x", "i", "t">>, <<"b", "y", "e">> }
\* (a comparison that keeps the case of the line)
IsExitWordCaseSensitive(word) == word \in ExitWords

\* user_input.lower() in ['quit', 'exit', 'bye']
IsExitWord(word) == Lower(word) \in ExitWords

\* The fixed utterances, as one-element texts.
FarewellText == <<"Goodbye! It was nice talking with you.">>
ApologyText  == <<"I'm sorry, I couldn't process that. Please try again.">>

\* ------------------------------------------------------------------ inputs
\* Lines the operator types (before .strip()); EndOfInput is Ctrl+C / EOF.
InputLines ==
    { << >>, <<" ">>, <<"q", "u", "i", "t">>, <<" ", "B", "y", "e">>,
      <<"h", "i">>, <<"e", "x", "i", "t", "s">> }
EndOfInput == <<"EOF">>
\* no line read yet
NoLine == <<"-">>

\* What POST /api/generate meets: 200 with a string "response" member, a
\* non-200 status, the 120 s timeout, no connection, or 200 with a body
\* that is malformed (not JSON, not an object, a "response" that is no
\* string: response.json(), .get or .strip raises).
Gen(kind, text) == [kind |-> kind, text |-> text]
NoGen == Gen("none", << >>)
GenTexts == { <<"o", "k">>, <<Star, "a", NL, NL, "b", " ">>, << >>, <<" ">> }
GenOutcomes ==
    { Gen("200", t) : t \in GenTexts }
    \cup { Gen("status", << >>), Gen("timeout", << >>), Gen("error", << >>),
           Gen("badbody", << >>) }

\* The value get_ollama_response returns, a string or None; Uncaught
\* stands for an exception that leaves it.
Str(text) == [none |-> FALSE, raised |-> FALSE, text |-> text]
NoneStr   == [none |-> TRUE, raised |-> FALSE, text |-> << >>]
Uncaught  == [none |-> TRUE, raised |-> TRUE, text |-> << >>]
\* (a test "response is not None")
TruthyIsNotNone(r) == ~r.none

\* if response:
Truthy(r) == ~r.none /\ r.text # << >>

\* ------------------------------------------------------------------ get_ollama_response
Turn(role, content) == [role |-> role, content |-> content]

RECURSIVE RenderHistory(_)
\* the for loop over conversation_history
RenderHistory(h) ==
    IF Len(h) = 0 THEN << >>
    ELSE (IF h[1].role = "user"
          THEN <<"User: ">> \o h[1].content \o <<NL>>
          ELSE <<"Assistant: ">> \o h[1].content \o <<NL>>)
         \o RenderHistory(Tail(h))

\* (a prompt that leaves the history out)
BuildPromptNoHistory(user_message, history) ==
    <<"User: ">> \o user_message \o <<NL, "Assistant:">>

\* full_prompt
BuildPrompt(user_message, history) ==
    IF Len(history) > 0
    THEN RenderHistory(history) \o <<"User: ">> \o user_message \o <<NL, "Assistant:">>
    ELSE <<"User: ">> \o user_message \o <<NL, "Assistant:">>

\* (a get_ollama_response without the last except clause)
GetOllamaResponseNoCatchAll(o) ==
    IF o.kind = "200" THEN Str(Strip(o.text))
    ELSE IF o.kind \in {"status", "timeout"} THEN NoneStr
    ELSE Uncaught

\* The result of get_ollama_response: the stripped "response" member on
\* status 200, None on any other status, on requests.exceptions.Timeout
\* and on any other Exception (no connection, malformed body).
GetOllamaResponse(o) == IF o.kind = "200" THEN Str(Strip(o.text)) ELSE NoneStr

\* ------------------------------------------------------------------ main
HealthOutcomes == {"models", "no_models", "non200", "conn_error", "error"}
\* (a health check that passes whenever /api/tags answers 200 with a list)
TestOllamaConnectionAnyList(o) == o \in {"models", "no_models"}

\* test_ollama_connection: True only when /api/tags answers 200 with a
\* non-empty model list
TestOllamaConnection(o) == o = "models"

\* what the GET /status of check_bridge_available meets
BridgeProbeOutcomes == {"200", "other_status", "error"}
\* (a probe that takes any answer of the bridge as available)
CheckBridgeAvailableAnyStatus(o) == o # "error"

\* check_bridge_available
CheckBridgeAvailable(o) == o = "200"

\* What requests.get meets when the bridge gives the answer r: the status
\* code is all that check_bridge_available reads; a closed connection
\* raises.
StatusCodeOutcome(r) ==
    IF r.code = 200 THEN "200"
    ELSE IF r.code > 0 THEN "other_status"
    ELSE "error"

\* what connect_to_pepper meets under Python 2.7: import qi fails, the
\* session connect raises RuntimeError, or the session is connected
DirectOutcomes == {"import_error", "refused", "ok"}

\* answers to the prompts of main, after .strip()
Choices == {"1", "2", "", "EOF"}

\* One relay of a text by a loop: via "direct" (tts.say), "bridge" (POST
\* /speak) or "print"; ok is whether the call succeeded (a print always
\* does); probed is whether GET /status of the bridge was issued on the way.
\* sys.version_info.major of the runtimes the connector branches on
PyMajors == {2, 3}

\* handle is the Session a direct relay spoke through; raised is whether
\* the relay call let an exception through to the loop.
Relay(via, text, ok, probed) ==
    [via |-> via, text |-> text, ok |-> ok, probed |-> probed,
     handle |-> None, raised |-> FALSE]

ConnInit ==
    /\ cpc = "start"
    /\ pyMajor \in PyMajors
    /\ health = "none"
    /\ direct_probe = "none"
    /\ bridge_probe = "none"
    /\ choice = "none"
    /\ mode = "none"
    /\ session = None
    /\ conversation_history = << >>
    /\ turns = 0
    /\ prompts = << >>
    /\ relays = << >>
    /\ last_gen = NoGen
    /\ response = NoneStr
    /\ line = NoLine
    /\ user_input = << >>
    /\ probes = << >>

\* the connector is not started
ConnOff ==
    /\ cpc = "off"
    /\ pyMajor = 3
    /\ health = "none"
    /\ direct_probe = "none"
    /\ bridge_probe = "none"
    /\ choice = "none"
    /\ mode = "none"
    /\ session = None
    /\ conversation_history = << >>
    /\ turns = 0
    /\ prompts = << >>
    /\ relays = << >>
    /\ last_gen = NoGen
    /\ response = NoneStr
    /\ line = NoLine
    /\ user_input = << >>
    /\ probes = << >>

\* Step 1 of main
TestOllama ==
    /\ cpc = "start"
    /\ \E o \in HealthOutcomes :
        /\ health' = o
        /\ cpc' = IF TestOllamaConnection(o) THEN "resolve" ELSE "exit"
    /\ UNCHANGED <<pyMajor, direct_probe, bridge_probe, choice, mode, session,
                   conversation_history, turns, prompts, relays,
                   last_gen, response, line, user_input, probes>>
    /\ UNCHANGED <<bvars, fvars>>

\* Step 2 of main under Python 3: the bridge is probed
ProbeBridge ==
    /\ cpc = "resolve"
    /\ pyMajor >= 3
    /\ \E o \in BridgeProbeOutcomes :
        /\ bridge_probe' = o
        /\ cpc' = IF CheckBridgeAvailable(o) THEN "choose" ELSE "press_enter"
    /\ UNCHANGED <<pyMajor, health, direct_probe, choice, mode, session,
                   conversation_history, turns, prompts, relays,
                   last_gen, response, line, user_input>>
    /\ probes' = Append(probes, "bridge")
    /\ UNCHANGED <<bvars, fvars>>

\* choice = input("Choose mode (1 or 2): ").strip()
ChooseMode ==
    /\ cpc = "choose"
    /\ \E c \in Choices :
        /\ choice' = c
        /\ IF c = "EOF"
           THEN cpc' = "exit" /\ UNCHANGED mode
           ELSE IF c = "1"
           THEN cpc' = "loop_bridge" /\ mode' = "Bridge"
           ELSE cpc' = "loop_sim" /\ mode' = "Simulation"
    /\ UNCHANGED <<pyMajor, health, direct_probe, bridge_probe, session,
                   conversation_history, turns, prompts, relays,
                   last_gen, response, line, user_input, probes>>
    /\ UNCHANGED <<bvars, fvars>>

\* input("Press Enter for Simulation Mode, or Ctrl+C to quit: ")
PressEnter ==
    /\ cpc = "press_enter"
    /\ \E c \in Choices :
        /\ choice' = c
        /\ IF c = "EOF"
           THEN cpc' = "exit" /\ UNCHANGED mode
           ELSE cpc' = "loop_sim" /\ mode' = "Simulation"
    /\ UNCHANGED <<pyMajor, health, direct_probe, bridge_probe, session,
                   conversation_history, turns, prompts, relays,
                   last_gen, response, line, user_input, probes>>
    /\ UNCHANGED <<bvars, fvars>>

\* Step 2 of main under Python 2.7: session = connect_to_pepper()
ProbeDirect ==
    /\ cpc = "resolve"
    /\ pyMajor < 3
    /\ \E o \in DirectOutcomes :
        /\ direct_probe' = o
        /\ IF o = "ok"
           THEN session' = 1 /\ mode' = "Direct" /\ cpc' = "loop_robot"
           ELSE session' = None /\ mode' = "Simulation" /\ cpc' = "loop_sim"
    /\ UNCHANGED <<pyMajor, health, bridge_probe, choice,
                   conversation_history, turns, prompts, relays,
                   last_gen, response, line, user_input>>
    /\ probes' = Append(probes, "direct")
    /\ UNCHANGED <<bvars, fvars>>

\* ------------------------------------------------------------------ relay helpers
\* (a speak_via_bridge that cleans the text before it posts it)
SpeakViaBridgeCleaned(text, o) == Relay("bridge", CleanText(text), o = "200", FALSE)

\* (a speak_via_bridge without its try: a transport error leaves it)
SpeakViaBridgeNoCatch(text, o) ==
    [Relay("bridge", text, o = "200", FALSE) EXCEPT !.raised = (o = "error")]

\* speak_via_bridge: POST /speak with {"text": text}; o is what the POST
\* met; any exception is caught and gives False
SpeakViaBridge(text, o) == Relay("bridge", text, o = "200", FALSE)

\* (a make_pepper_speak that tries the bridge whatever the session)
MakePepperSpeakBridgeFirst(sessionArg, text, sayOk, probe, post) ==
    IF CheckBridgeAvailable(probe)
    THEN [SpeakViaBridge(ConnCleanText(text), post) EXCEPT !.probed = TRUE]
    ELSE [Relay("direct", ConnCleanText(text), sayOk, TRUE) EXCEPT !.handle = sessionArg]

\* (a make_pepper_speak without the try around the legacy call)
MakePepperSpeakNoCatch(sessionArg, text, sayOk, probe, post) ==
    [Relay("direct", ConnCleanText(text), sayOk, FALSE)
        EXCEPT !.handle = sessionArg, !.raised = ~sayOk]

\* make_pepper_speak(session, text) of the connector: sayOk says whether
\* session.service / tts.say returned (an exception is caught and
\* printed), probe and post what the bridge answered to the probe and to
\* the POST.  With no session it probes the bridge before it posts or
\* prints.
MakePepperSpeak(sessionArg, text, sayOk, probe, post) ==
    LET clean_text == ConnCleanText(text) IN
    IF sessionArg # None
    THEN [Relay("direct", clean_text, sayOk, FALSE) EXCEPT !.handle = sessionArg]
    ELSE IF CheckBridgeAvailable(probe)
    THEN [SpeakViaBridge(clean_text, post) EXCEPT !.probed = TRUE]
    ELSE Relay("print", clean_text, TRUE, TRUE)

\* (a simulation loop that relays through make_pepper_speak with no session)
SimulationSpeakViaHelper(text) == MakePepperSpeak(None, text, TRUE, "error", "error")

\* print("AI Response: ...") of run_simulation_mode
SimulationSpeak(text) == Relay("print", text, TRUE, FALSE)

LoopFrame == UNCHANGED <<pyMajor, health, direct_probe, bridge_probe, choice, mode, session>>

\* user_input = input("You: ").strip()
ReadLine(l) ==
    /\ line' = l
    /\ user_input' = Strip(l)

\* input() raised KeyboardInterrupt or EOFError: the loop is left
EndOfInputBreak ==
    /\ line' = EndOfInput
    /\ cpc' = "exit"
    /\ UNCHANGED <<user_input, conversation_history, prompts, relays, probes,
                   last_gen, response>>

\* if not user_input: continue
Continue ==
    UNCHANGED <<cpc, conversation_history, prompts, relays, probes, last_gen, response>>

\* response = get_ollama_response(user_input, conversation_history), where
\* g is what the one POST /api/generate meets
CallOllama(g) ==
    /\ prompts' = Append(prompts, BuildPrompt(user_input', conversation_history))
    /\ last_gen' = g
    /\ response' = GetOllamaResponse(g)

\* (a save that keeps the answer only)
SaveToHistoryAnswerOnly ==
    conversation_history' =
        conversation_history \o <<Turn("assistant", response'.text)>>

\* The two appends under "if response:" in the three loops.
SaveToHistory ==
    conversation_history' =
        conversation_history \o
            <<Turn("user", user_input'), Turn("assistant", response'.text)>>

\* an exception get_ollama_response let through leaves the loop and main
Crash ==
    /\ cpc' = "crashed"
    /\ UNCHANGED <<conversation_history, relays, probes>>

\* one relay call r of a loop that then goes to next; an exception the
\* call let through leaves the loop and main
DoRelay(r, next) ==
    /\ relays' = Append(relays, r)
    /\ probes' = IF r.probed THEN Append(probes, "bridge") ELSE probes
    /\ cpc' = IF r.raised THEN "crashed" ELSE next

\* ------------------------------------------------------------------ run_simulation_mode
SimTurn ==
    /\ cpc = "loop_sim"
    /\ turns < MaxTurns
    /\ turns' = turns + 1
    /\ \E l \in InputLines \cup {EndOfInput}, g \in GenOutcomes :
        IF l = EndOfInput
        THEN EndOfInputBreak
        ELSE /\ ReadLine(l)
             /\ IF user_input' = << >>
                THEN Continue
                ELSE IF IsExitWord(user_input')
                THEN /\ cpc' = "exit"
                     /\ UNCHANGED <<conversation_history, prompts, relays, probes,
                                    last_gen, response>>
                ELSE /\ CallOllama(g)
                     /\ IF response'.raised
                        THEN Crash
                        ELSE IF Truthy(response')
                        THEN /\ SaveToHistory
                             /\ DoRelay(SimulationSpeak(response'.text), cpc)
                        ELSE UNCHANGED <<cpc, conversation_history, relays, probes>>
    /\ LoopFrame
    /\ UNCHANGED <<bvars, fvars>>

\* ------------------------------------------------------------------ run_with_robot
RobotTurn ==
    /\ cpc = "loop_robot"
    /\ turns < MaxTurns
    /\ turns' = turns + 1
    /\ \E l \in InputLines \cup {EndOfInput}, g \in GenOutcomes,
          sayOk \in BOOLEAN, probe \in BridgeProbeOutcomes :
        LET Speak(text) == MakePepperSpeak(session, text, sayOk, probe, probe)
        IN  IF l = EndOfInput
            THEN EndOfInputBreak
            ELSE /\ ReadLine(l)
                 /\ IF user_input' = << >>
                    THEN Continue
                    ELSE IF IsExitWord(user_input')
                    THEN /\ DoRelay(Speak(FarewellText), "exit")
                         /\ UNCHANGED <<conversation_history, prompts, last_gen, response>>
                    ELSE /\ CallOllama(g)
                         /\ IF response'.raised
                            THEN Crash
                            ELSE IF Truthy(response')
                            THEN /\ SaveToHistory
                                 /\ DoRelay(Speak(response'.text), cpc)
                            ELSE /\ DoRelay(Speak(ApologyText), cpc)
                                 /\ UNCHANGED conversation_history
    /\ LoopFrame
    /\ UNCHANGED <<bvars, fvars>>

\* ------------------------------------------------------------------ run_with_bridge
BridgeTurn ==
    /\ cpc = "loop_bridge"
    /\ turns < MaxTurns
    /\ turns' = turns + 1
    /\ \E l \in InputLines \cup {EndOfInput}, g \in GenOutcomes,
          post \in BridgeProbeOutcomes :
        IF l = EndOfInput
        THEN EndOfInputBreak
        ELSE /\ ReadLine(l)
             /\ IF user_input' = << >>
                THEN Continue
                ELSE IF IsExitWord(user_input')
                THEN /\ DoRelay(SpeakViaBridge(FarewellText, post), "exit")
                     /\ UNCHANGED <<conversation_history, prompts, last_gen, response>>
                ELSE /\ CallOllama(g)
                     /\ IF response'.raised
                        THEN Crash
                        ELSE IF Truthy(response')
                        THEN /\ SaveToHistory
                             /\ DoRelay(SpeakViaBridge(response'.text, post), cpc)
                        ELSE /\ DoRelay(SpeakViaBridge(ApologyText, post), cpc)
                             /\ UNCHANGED conversation_history
    /\ LoopFrame
    /\ UNCHANGED <<bvars, fvars>>

ConnNext ==
    \/ TestOllama
    \/ ProbeBridge
    \/ ChooseMode
    \/ PressEnter
    \/ ProbeDirect
    \/ SimTurn
    \/ RobotTurn
    \/ BridgeTurn

\* ================================================================== the functions alone
\* ------------------------------------------------------------------ the cleaning step
SanChars == {Star, Hash, Backtick, NL, "a", ".", " "}
SanTexts == UNION { [1..n -> SanChars] : n \in 0..MaxLen }
SanImpls == {"bridge", "connector"}

SanOff ==
    /\ spc = "off"
    /\ san_impl = "bridge"
    /\ san_in = << >>
    /\ san_out = << >>

SanInit ==
    /\ spc = "in"
    /\ san_impl \in SanImpls
    /\ san_in \in SanTexts
    /\ san_out = << >>

\* the two cleaning lines applied to the argument
Clean ==
    /\ spc = "in"
    /\ san_out' = IF san_impl = "bridge" THEN CleanText(san_in) ELSE ConnCleanText(san_in)
    /\ spc' = "cleaned"
    /\ UNCHANGED <<san_impl, san_in, ppc, prompt_message, prompt_history, prompt_out>>
    /\ UNCHANGED <<bvars, cvars>>

\* the two cleaning lines applied to their own result
CleanAgain ==
    /\ spc = "cleaned"
    /\ san_in' = san_out
    /\ san_out' = IF san_impl = "bridge" THEN CleanText(san_out) ELSE ConnCleanText(san_out)
    /\ spc' = "recleaned"
    /\ UNCHANGED <<san_impl, ppc, prompt_message, prompt_history, prompt_out>>
    /\ UNCHANGED <<bvars, cvars>>

CleanNext ==
    \/ Clean
    \/ CleanAgain

\* ------------------------------------------------------------------ the prompt assembly
PromptTexts == { << >>, <<"h", "i">>, <<"h", "e", "l", "l", "o">> }
PromptMessages == { <<"b", "y", "e">>, <<"h", "i">>, << >> }
PromptTurns == { Turn(r, c) : r \in {"user", "assistant"}, c \in PromptTexts }
PromptHistories == UNION { [1..n -> PromptTurns] : n \in 0..MaxHist }

PromptOff ==
    /\ ppc = "off"
    /\ prompt_message = << >>
    /\ prompt_history = << >>
    /\ prompt_out = << >>

PromptInit ==
    /\ ppc = "in"
    /\ prompt_message \in PromptMessages
    /\ prompt_history \in PromptHistories
    /\ prompt_out = << >>

\* the prompt get_ollama_response builds from its two arguments
Assemble ==
    /\ ppc = "in"
    /\ prompt_out' = BuildPrompt(prompt_message, prompt_history)
    /\ ppc' = "built"
    /\ UNCHANGED <<spc, san_impl, san_in, san_out, prompt_message, prompt_history>>
    /\ UNCHANGED <<bvars, cvars>>

PromptNext == Assemble

\* ================================================================== specifications
Init == BridgeInit /\ ConnInit /\ SanOff /\ PromptOff

\* The bridge process and its clients; the connector is not running.
InitBridge == Init /\ pyMajor = 3
Next == BridgeNext
Spec == InitBridge /\ [][Next]_vars

\* The connector process.
SpecConn == Init /\ [][ConnNext]_vars

\* Either program alone: the bridge with its clients while the connector
\* is not started, or the connector while the bridge is not started.
InitEither ==
    /\ \/ BridgeInit /\ ConnOff
       \/ BridgeOff /\ ConnInit
    /\ SanOff /\ PromptOff
EitherNext ==
    \/ BridgeNext
    \/ ConnNext
SpecEither == InitEither /\ [][EitherNext]_vars

\* The cleaning step alone, on every text up to MaxLen characters.
InitClean == BridgeInit /\ ConnInit /\ pyMajor = 3 /\ SanInit /\ PromptOff
SpecClean == InitClean /\ [][CleanNext]_vars

\* The prompt assembly alone, on every history up to MaxHist turns.
InitPrompt == BridgeInit /\ ConnInit /\ pyMajor = 3 /\ SanOff /\ PromptInit
SpecPrompt == InitPrompt /\ [][PromptNext]_vars

\* ================================================================== claims on the bridge
IsStatusGet(i) == reqs[i].method = "GET" /\ reqs[i].path = "/status"
IsSpeakPost(i) == reqs[i].method = "POST" /\ reqs[i].path = "/speak"
IsReconnectPost(i) ==
    reqs[i].method = "POST" /\ reqs[i].path = "/reconnect" /\ reqs[i].body.kind # "badjson"
\* POST /speak whose body is a JSON object with a non-empty string text
IsSpeakWithText(i) ==
    /\ IsSpeakPost(i)
    /\ reqs[i].body.kind = "object"
    /\ reqs[i].body.tkind = "str"
    /\ reqs[i].body.text # << >>
\* POST /speak whose body is JSON (or empty) with no text member or an empty text
IsSpeakNoText(i) ==
    /\ IsSpeakPost(i)
    /\ reqs[i].body.kind \in {"empty", "object", "nonobject"}
    /\ \/ reqs[i].body.tkind = "absent"
       \/ reqs[i].body.tkind = "str" /\ reqs[i].body.text = << >>
\* the request is answered (or its connection closed) in this step
Answered(i) == resp[i] = NoResp /\ resp'[i] # NoResp
\* the handler of the request starts in this step
Handled(i) == pc[i] = "idle" /\ pc'[i] # "idle"

ConnPcs == {"conn_new", "conn_connect", "conn_service"}
\* between the first write of connect_to_pepper and its return
MidWritePcs == {"conn_connect", "conn_service"}
InConnect == { t \in Threads : pc[t] \in ConnPcs }
InSay == { i \in ReqIds : pc[i] = "say_ret" }

NeverConnected == \A s \in Sessions : sess[s] \notin {"up", "down"}

\* C2: while no connect attempt has ever succeeded (no Session object was
\* ever connected), every answer to GET /status is 200 with connected:false.
C2_StatusFalseUntilConnected ==
    NeverConnected =>
        \A i \in ReqIds :
            (IsStatusGet(i) /\ resp[i] # NoResp) => resp[i] = StatusResp(FALSE)

\* the session /speak talks through is not connected: no speech handle
\* ("Error: Not connected to Pepper"), or the session of the handle is down
SpeechSessionDown == tts_service = None \/ sess[tts_service] # "up"

\* C3: a POST /speak with a non-empty text is answered 500 "Failed to
\* speak" whenever the legacy session it talks through is not connected or
\* the legacy say call raised, is answered 200 spoken only when the say
\* call completed, and the server goes on serving either way.
C3_SpeakFailsWhenLegacyFails ==
    [][\A i \in ReqIds :
        (IsSpeakWithText(i) /\ Answered(i)) =>
            /\ (SpeechSessionDown \/ say'[i].state = "raised")
                   => resp'[i] = SpeakFailedResp
            /\ resp'[i] = SpokenResp => say'[i].state = "done"
            /\ resp'[i] \in {SpokenResp, SpeakFailedResp}
            /\ pc'[MainThread] = "serving"
            /\ pc'[i] = "done"]_bvars

\* a say call raised, the caller got 500, and a later request was answered
C3_Witness ==
    \E i, j \in ReqIds :
        /\ i < j
        /\ IsSpeakWithText(i) /\ say[i].state = "raised" /\ resp[i] = SpeakFailedResp
        /\ IsSpeakWithText(j) /\ say[j].state = "done" /\ resp[j] = SpokenResp

\* The reconnect requests whose connect attempt has begun, the latest of
\* them, and the attempt before it (the startup connect when it is the first).
Attempted == { i \in ReqIds : attempt[i] # "none" }
LastAttempt == CHOOSE i \in Attempted : \A j \in Attempted : j <= i
PrevAttempt ==
    IF Attempted \ {LastAttempt} = {} THEN MainThread
    ELSE CHOOSE i \in Attempted \ {LastAttempt} :
             \A j \in Attempted \ {LastAttempt} : j <= i
\* the latest reconnect found the target reachable, has returned, and came
\* after a failed attempt
ReconnectedAfterFailure ==
    /\ Attempted # {}
    /\ attempt[LastAttempt] = "ok"
    /\ pc[LastAttempt] = "done"
    /\ attempt[PrevAttempt] # "ok"

\* C4: after a failed connect, a POST /reconnect that finds the target
\* reachable is answered 200 connected:true; until another reconnect every
\* GET /status answers connected:true and every POST /speak with a
\* non-empty text is passed to say through the session just established.
C4_ReconnectRoundTrip ==
    [][/\ \A i \in ReqIds :
            (IsReconnectPost(i) /\ Answered(i) /\ attempt[i] = "ok")
                => resp'[i] = ReconnectedResp
       /\ ReconnectedAfterFailure =>
            \A j \in ReqIds :
                /\ (IsStatusGet(j) /\ Answered(j)) => resp'[j] = StatusResp(TRUE)
                /\ (IsSpeakWithText(j) /\ Handled(j)) =>
                       /\ say'[j].state = "calling"
                       /\ say'[j].handle = pepper_session
                       /\ sess[pepper_session] # "new"]_bvars

\* C5: whenever no connect is running, pepper_session and tts_service are
\* both unset, or both set with tts_service got from the held session.
C5_SessionNeverTorn ==
    InConnect = {} =>
        \/ pepper_session = None /\ tts_service = None
        \/ pepper_session # None /\ tts_service = pepper_session

\* C6: a POST /speak whose JSON body has no text or an empty text is
\* answered 400 "No text provided", makes no say call and leaves
\* pepper_session and tts_service as they were, whatever the session state.
C6_NoTextIs400 ==
    [][\A i \in ReqIds :
        (IsSpeakNoText(i) /\ Handled(i)) =>
            /\ resp'[i] = NoTextResp
            /\ say'[i] = NoSay
            /\ UNCHANGED <<pepper_session, tts_service, sess, say>>]_bvars

\* an unknown path: not /status or / for GET, not /speak or /reconnect for POST
IsUnknownPath(i) ==
    \/ reqs[i].method = "GET" /\ reqs[i].path \notin {"/status", "/"}
    \/ reqs[i].method = "POST" /\ reqs[i].path \notin {"/speak", "/reconnect"}

C8_ReconnectSerialized ==
    /\ Cardinality(InConnect) <= 1
    /\ \A i, j \in ReqIds :
        (i < j /\ pc[i] \in ConnPcs /\ IsReconnectPost(j)) => resp[j] = NoResp

\* two reconnects overlap: the second was sent while the first was connecting
C8_Witness ==
    \E i, j \in ReqIds :
        /\ i # j
        /\ IsReconnectPost(i) /\ pc[i] \in MidWritePcs
        /\ IsReconnectPost(j) /\ pending = <<j>>

\* the handler reads pepper_session or tts_service in this step
ReadsHandle(j) ==
    /\ Handled(j)
    /\ \/ IsStatusGet(j)
       \/ IsSpeakPost(j) /\ reqs[j].body.kind = "object" /\ ~TextIsFalsy(reqs[j].body)

\* C9: no /speak or /status handler reads pepper_session or tts_service
\* while a connect is between its first write and its return.
C9_NoReadDuringReconnect ==
    [][\A j \in ReqIds :
        ReadsHandle(j) => \A t \in Threads : t # j => pc[t] \notin MidWritePcs]_bvars

\* a /speak or /status is sent while a reconnect is between its writes
C9_Witness ==
    \E i, j \in ReqIds :
        /\ i # j
        /\ IsReconnectPost(i) /\ pc[i] \in MidWritePcs
        /\ IsStatusGet(j) \/ IsSpeakWithText(j)
        /\ pending = <<j>>

\* C10: at most one legacy say call is in progress at any time.
C10_SaySerialized == Cardinality(InSay) <= 1

\* one say call is running while another /speak with text waits
C10_Witness ==
    \E i, j \in ReqIds :
        /\ i # j
        /\ pc[i] = "say_ret"
        /\ IsSpeakWithText(j) /\ IsAscii(reqs[j].body.text) /\ pending = <<j>>

Forbidden == {Star, Hash, Backtick, NL}
HasForbidden(t) == \E k \in 1..Len(t) : t[k] \in Forbidden
Loops == {"loop_sim", "loop_robot", "loop_bridge"}
LastRelay == relays[Len(relays)]
\* the step appends one relay
Relays == Len(relays') = Len(relays) + 1
\* the step makes one call of get_ollama_response
Generates == Len(prompts') = Len(prompts) + 1

RECURSIVE NLRun(_)
NLRun(t) == IF Len(t) > 0 /\ t[1] = NL THEN 1 + NLRun(Tail(t)) ELSE 0
RECURSIVE Dots(_)
Dots(n) == IF n = 0 THEN << >> ELSE <<".", " ">> \o Dots(n - 1)
RECURSIVE CollapseRuns(_)
CollapseRuns(t) ==
    IF Len(t) = 0 THEN << >>
    ELSE IF t[1] = NL
         THEN Dots((NLRun(t) + 1) \div 2) \o CollapseRuns(SubSeq(t, NLRun(t) + 1, Len(t)))
         ELSE <<t[1]>> \o CollapseRuns(Tail(t))
Sanitized(t) == CollapseRuns(SelectSeq(t, LAMBDA c : c \notin {Star, Hash, Backtick}))

\* C12 as stated: the string passed to the legacy say call is exactly the
\* text received.
C12_BridgeForwardsVerbatim ==
    \A i \in ReqIds :
        say[i].state # "none" => say[i].text = reqs[i].body.text

\* C12 amended: the bridge cleans the text itself.  A POST /speak with a
\* non-empty text makes the say call exactly when a speech handle is held
\* and the text is all ASCII, and the string passed is then the received
\* text with the markup characters dropped and the newlines replaced by
\* ". "; otherwise no say call is made.
C12_BridgeCleansText ==
    [][\A i \in ReqIds :
        (IsSpeakWithText(i) /\ Handled(i)) =>
            IF tts_service # None /\ IsAscii(reqs[i].body.text)
            THEN /\ say'[i] = SayCall(tts_service, Sanitized(reqs[i].body.text), "calling")
                 /\ ~HasForbidden(say'[i].text)
            ELSE say'[i] = NoSay]_bvars

\* a text with markup and a newline was spoken cleaned
C12_Witness ==
    \E i \in ReqIds :
        /\ reqs[i].body.text = <<Star, "a", NL, "b">>
        /\ say[i].state = "done"
        /\ say[i].text = <<"a", ".", " ", "b">>
        /\ resp[i] = SpokenResp

\* C13: cleaning the cleaned text gives the cleaned text, in the bridge's
\* and in the connector's make_pepper_speak.
C13_CleanIdempotent == spc = "recleaned" => san_out = san_in

\* three newlines were cleaned to ". . ", and that was cleaned again
C13_Witness ==
    /\ spc = "recleaned"
    /\ san_impl = "connector"
    /\ san_in = <<".", " ", ".", " ">>
    /\ san_out = <<".", " ", ".", " ">>

\* C14: the cleaned text has no '*', '#', backquote or newline; it is the
\* argument with the markup characters dropped, each double newline and
\* then each remaining newline replaced by ". ", the other characters kept
\* in order.
C14_CleanOutput ==
    spc = "cleaned" =>
        /\ ~HasForbidden(san_out)
        /\ san_out = Sanitized(san_in)
        /\ SelectSeq(san_out, LAMBDA c : c = "a") = SelectSeq(san_in, LAMBDA c : c = "a")

\* a double newline next to a single newline and a markup character
C14_Witness ==
    /\ spc = "cleaned"
    /\ san_in = <<NL, NL, Hash>>
    /\ san_out = <<".", " ">>

\* ================================================================== claims on the generation client
\* One history turn as the claim renders it.
PromptLine(t) ==
    <<IF t.role = "user" THEN "User: " ELSE "Assistant: ">> \o t.content \o <<NL>>
RECURSIVE PromptLines(_)
\* the lines of a history, the latest one last
PromptLines(h) ==
    IF h = << >> THEN << >>
    ELSE PromptLines(SubSeq(h, 1, Len(h) - 1)) \o PromptLine(h[Len(h)])
ExampleHistory ==
    <<Turn("user", <<"h", "i">>), Turn("assistant", <<"h", "e", "l", "l", "o">>)>>
ExamplePrompt ==
    <<"User: ", "h", "i", NL, "Assistant: ", "h", "e", "l", "l", "o", NL,
      "User: ", "b", "y", "e", NL, "Assistant:">>

\* C15: the prompt is the history turns in order, each as "User: <text>\n"
\* or "Assistant: <text>\n", followed by "User: <message>\nAssistant:"; the
\* history [user hi, assistant hello] with the message bye gives
\* "User: hi\nAssistant: hello\nUser: bye\nAssistant:".
C15_PromptAssembly ==
    ppc = "built" =>
        /\ prompt_out = PromptLines(prompt_history)
                            \o <<"User: ">> \o prompt_message \o <<NL, "Assistant:">>
        /\ (prompt_history = ExampleHistory /\ prompt_message = <<"b", "y", "e">>)
               => prompt_out = ExamplePrompt

\* the example of the claim was assembled
C15_Witness ==
    /\ ppc = "built"
    /\ prompt_history = ExampleHistory
    /\ prompt_message = <<"b", "y", "e">>
    /\ prompt_out = ExamplePrompt

\* C16: a call of get_ollama_response posts one request; when that meets a
\* non-200 status, the timeout, a transport failure or a malformed body
\* the call returns None, which no successful call returns; nothing is
\* raised into the loop, which goes on with its history as it was.
C16_GenerationNeverRaises ==
    [][(cpc \in Loops /\ prompts' # prompts) =>
          /\ Generates
          /\ SubSeq(prompts', 1, Len(prompts)) = prompts
          /\ ~response'.raised
          /\ cpc' = cpc
          /\ last_gen'.kind # "200" =>
                /\ response' = NoneStr
                /\ \A t \in GenTexts : response' # Str(Strip(t))
                /\ conversation_history' = conversation_history
          /\ last_gen'.kind = "200" => response' = Str(Strip(last_gen'.text))]_cvars

\* a malformed body after a good turn: the loop goes on, the history stays
C16_Witness ==
    /\ cpc = "loop_bridge"
    /\ Len(prompts) = 2
    /\ last_gen.kind = "badbody"
    /\ response = NoneStr
    /\ Len(conversation_history) = 2

\* C17: when the endpoint answers 200 with an empty or all-blank response,
\* the result is the empty string and the loop takes the turn as a
\* success: the turn is saved to the history and no apology is relayed.
C17_EmptyResponseIsSuccess ==
    [][(cpc \in Loops /\ Generates /\ last_gen'.kind = "200"
            /\ Strip(last_gen'.text) = << >>) =>
          /\ response' = Str(<< >>)
          /\ Len(conversation_history') = Len(conversation_history) + 2
          /\ Relays => LastRelay'.text # ApologyText]_cvars

C19_ReResolveAfterRelayFailure ==
    [][~(/\ cpc \in Loops
         /\ relays # << >>
         /\ ~LastRelay.ok
         /\ Relays
         /\ UNCHANGED <<mode, direct_probe, bridge_probe, session>>)]_cvars

\* C20: every relay of the simulation loop is a print: no request to the
\* bridge (no probe, no POST), no legacy call, always a success; the
\* simulation loop is the one that runs whenever the bridge did not answer
\* 200 to the probe, and whenever the Direct connect failed.
C20_SimulationRelaysOffline ==
    /\ mode = "Simulation" =>
          \A k \in 1..Len(relays) :
              /\ relays[k].via = "print"
              /\ relays[k].ok
              /\ ~relays[k].probed
    /\ (bridge_probe \in {"other_status", "error"} /\ cpc \in Loops) => mode = "Simulation"
    /\ (direct_probe \in {"import_error", "refused"} /\ cpc \in Loops) => mode = "Simulation"

\* the bridge is not running and two answers were shown
C20_Witness ==
    /\ bridge_probe = "error"
    /\ mode = "Simulation"
    /\ Len(relays) = 2
    /\ relays[2].text = <<Star, "a", NL, NL, "b">>

\* ================================================================== claims on the resolution
\* C21: when the Direct connect succeeded the mode is Direct, the bridge
\* is never probed, and every relay of the run is a legacy call through
\* the Session the connect opened.
C21_DirectSelected ==
    direct_probe = "ok" =>
        /\ mode = "Direct"
        /\ session # None
        /\ cpc \in {"loop_robot", "exit"}
        /\ bridge_probe = "none"
        /\ probes = <<"direct">>
        /\ \A k \in 1..Len(relays) :
              /\ relays[k].via = "direct"
              /\ relays[k].handle = session
              /\ ~relays[k].probed

\* two texts were spoken through the Session of the Direct connect
C21_Witness ==
    /\ direct_probe = "ok"
    /\ Len(relays) = 2
    /\ relays[1].handle = session
    /\ relays[2].handle = session

\* main is past the resolution
Resolved == health = "models" /\ cpc \notin {"start", "resolve", "choose", "press_enter"}

C23_ProbeChecksReachabilityOnly ==
    \A i \in ReqIds :
        (IsStatusGet(i) /\ resp[i] # NoResp) =>
            /\ resp[i].code = 200
            /\ resp[i] \in {StatusResp(TRUE), StatusResp(FALSE)}
            /\ CheckBridgeAvailable(StatusCodeOutcome(resp[i]))

\* no speech handle is held: /speak got 500, /status got 200
C23_Witness ==
    /\ tts_service = None
    /\ \E i, j \in ReqIds :
        /\ IsSpeakWithText(i) /\ resp[i] = SpeakFailedResp
        /\ IsStatusGet(j) /\ resp[j].code = 200

\* ================================================================== claims on the loops
\* the step reads one input line (not the end of the input)
TurnReads == cpc \in Loops /\ turns' = turns + 1 /\ line' # EndOfInput
\* the exit words as the operator types them in the model
TypedExitWords == { <<"q", "u", "i", "t">>, <<"B", "y", "e">> }
AllBlank(l) == \A k \in 1..Len(l) : l[k] \in {" ", NL}
\* the generation of the step gave a non-empty text
GotText == last_gen'.kind = "200" /\ Strip(last_gen'.text) # << >>

\* C24: in the Direct and the Bridge loop a relay that fails raises
\* nothing into the loop; after a turn whose relay failed the loop is
\* still running, and only an exit word ends it.
C24_RelayFailureKeepsLoop ==
    [][(cpc \in {"loop_robot", "loop_bridge"} /\ Relays /\ ~LastRelay'.ok) =>
          /\ ~LastRelay'.raised
          /\ cpc' # "crashed"
          /\ Generates => cpc' = cpc
          /\ ~Generates => (user_input' \in TypedExitWords /\ cpc' = "exit")]_cvars

\* the POST of the first turn failed and the second turn was relayed
C24_Witness ==
    /\ cpc = "loop_bridge"
    /\ Len(relays) = 2
    /\ ~relays[1].ok
    /\ relays[2].ok

\* C25 as stated: in every mode an exit word gives exactly one relay of
\* the farewell, no generation call, and the end of the loop.
C25_ExitWordRelaysFarewell ==
    [][(TurnReads /\ user_input' \in TypedExitWords) =>
          /\ Relays
          /\ LastRelay'.text = FarewellText
          /\ ~Generates
          /\ cpc' = "exit"]_cvars

\* C25 amended: an exit word ends the loop with no generation call in
\* every mode; the Direct and the Bridge loop relay the farewell once
\* through their backend before they end, the Simulation loop relays
\* nothing.
C25_ExitWordEndsLoop ==
    [][(TurnReads /\ user_input' \in TypedExitWords) =>
          /\ prompts' = prompts
          /\ conversation_history' = conversation_history
          /\ cpc' = "exit"
          /\ cpc = "loop_sim" => relays' = relays
          /\ cpc # "loop_sim" =>
                /\ Relays
                /\ relays' = Append(relays, LastRelay')
                /\ LastRelay'.text = FarewellText
                /\ LastRelay'.via = IF cpc = "loop_robot" THEN "direct" ELSE "bridge"]_cvars

\* " Bye" ended a Bridge loop after one answer and the farewell
C25_Witness ==
    /\ mode = "Bridge"
    /\ cpc = "exit"
    /\ line = <<" ", "B", "y", "e">>
    /\ Len(relays) = 2
    /\ relays[2].text = FarewellText

\* C26 as stated: every turn with a generation call, failed or not, adds the
\* user turn and the produced turn (the generated text, or the apology).
C26_ContextGrowsEveryTurn ==
    [][(cpc \in Loops /\ Generates) =>
          conversation_history' =
              conversation_history \o
                  <<Turn("user", user_input'),
                    Turn("assistant", IF last_gen'.kind = "200"
                                      THEN Strip(last_gen'.text) ELSE ApologyText)>>]_cvars

\* C26 amended: a turn whose generation gave a non-empty text adds the user
\* turn and then the generated text; a turn whose generation failed or
\* gave an empty text adds nothing; no other step changes the history.
C26_ContextGrowsOnSuccess ==
    [][IF cpc \in Loops /\ Generates /\ GotText
       THEN conversation_history' =
                conversation_history \o
                    <<Turn("user", user_input'), Turn("assistant", Strip(last_gen'.text))>>
       ELSE conversation_history' = conversation_history]_cvars

\* a good turn, then a timeout: the history holds the good turn only
C26_Witness ==
    /\ Len(prompts) = 2
    /\ last_gen.kind = "timeout"
    /\ conversation_history = <<Turn("user", <<"h", "i">>), Turn("assistant", <<"o", "k">>)>>

\* C27: an empty or all-blank line makes no generation call and no relay,
\* leaves the history as it was, and the loop goes on.
C27_BlankLineIgnored ==
    [][(TurnReads /\ AllBlank(line')) =>
          /\ cpc' = cpc
          /\ UNCHANGED <<prompts, relays, probes, conversation_history,
                         last_gen, response, mode, session>>]_cvars

\* a blank line after a spoken answer, the Direct loop still running
C27_Witness ==
    /\ cpc = "loop_robot"
    /\ line = <<" ">>
    /\ turns = 2
    /\ Len(relays) = 1

\* C28: a legacy call that raises in the Direct loop is caught, the loop
\* keeps its session and speaks through it; a /speak of the bridge that is
\* answered 500 leaves pepper_session, tts_service and the sessions as
\* they were.
C28_FailedSpeechKeepsSession ==
    [][/\ (cpc = "loop_robot" /\ Relays) =>
            /\ session' = session
            /\ LastRelay'.handle = session
            /\ ~LastRelay'.raised
            /\ cpc' # "crashed"
       /\ \A i \in ReqIds :
            (IsSpeakPost(i) /\ Answered(i) /\ resp'[i] = SpeakFailedResp) =>
                UNCHANGED <<pepper_session, tts_service, sess>>]_vars

\* the legacy call raised on the first turn; the second turn spoke through
\* the same session
C28_Witness ==
    /\ cpc = "loop_robot"
    /\ Len(relays) = 2
    /\ ~relays[1].ok
    /\ relays[2].ok
    /\ relays[2].handle = session

\* C29: GET /status, GET / and OPTIONS on any path are answered 200 in the
\* step that handles them, with no connect, no say call and no change of
\* pepper_session, tts_service or the sessions.
C29_ReadOnlyEndpoints ==
    [][\A i \in ReqIds :
        (Handled(i) /\ (\/ IsStatusGet(i)
                        \/ reqs[i].method = "GET" /\ reqs[i].path = "/"
                        \/ reqs[i].method = "OPTIONS")) =>
            /\ resp'[i].code = 200
            /\ pc'[i] = "done"
            /\ UNCHANGED <<pepper_session, tts_service, sess, say, attempt>>]_bvars

\* GET / and OPTIONS on an unknown path were answered while a session is up
C29_Witness ==
    /\ tts_service # None
    /\ \E i, j \in ReqIds :
        /\ reqs[i] = Request("GET", "/", NoBody) /\ resp[i] = HelpResp
        /\ reqs[j] = Request("OPTIONS", "/other", NoBody) /\ resp[j] = OptionsResp

\* C30: no step of a loop probes a backend or changes the mode; a relay
\* that follows a relay that succeeded goes the same way, with no Direct
\* connect and no bridge /status request in between.
C30_ModeCached ==
    [][(cpc \in Loops) =>
          /\ probes' = probes
          /\ UNCHANGED <<mode, session, direct_probe, bridge_probe>>
          /\ (relays # << >> /\ LastRelay.ok /\ Relays) =>
                /\ LastRelay'.via = LastRelay.via
                /\ LastRelay'.handle = LastRelay.handle
                /\ LastRelay'.probed = FALSE]_cvars

\* two answers were shown in a row in Simulation after the one probe
C30_Witness ==
    /\ mode = "Simulation"
    /\ Len(relays) = 2
    /\ relays[1].ok /\ relays[2].ok
    /\ Len(probes) = 1

\* ================================================================== claims end to end
\* C31: no string passed to the legacy say call holds '*', '#', a
\* backquote or a newline: not the one the bridge passes for a text any
\* client posted, not the one the Direct loop passes, and not the one the
\* bridge makes of a text the Bridge loop posts.
C31_SpokenTextIsClean ==
    /\ \A i \in ReqIds :
          say[i].state # "none" => ~HasForbidden(say[i].text)
    /\ \A k \in 1..Len(relays) :
          /\ relays[k].via = "direct" => ~HasForbidden(relays[k].text)
          /\ relays[k].via = "bridge" => ~HasForbidden(CleanText(relays[k].text))

\* a generated text with markup and newlines was spoken cleaned in Direct
\* mode
C31_Witness ==
    /\ mode = "Direct"
    /\ HasForbidden(last_gen.text)
    /\ relays # << >>
    /\ LastRelay.via = "direct"
    /\ LastRelay.ok
    /\ LastRelay.text = <<"a", ".", " ", "b">>

\* the history alternates user, assistant from a user turn on, and every
\* assistant entry is a non-empty text the generation gave, stripped
HistoryWellFormed ==
    /\ Len(conversation_history) % 2 = 0
    /\ \A k \in 1..Len(conversation_history) :
          LET e == conversation_history[k] IN
          IF k % 2 = 1
          THEN e.role = "user" /\ e.content # << >>
          ELSE /\ e.role = "assistant"
               /\ e.content # << >>
               /\ \E t \in GenTexts : e.content = Strip(t)

\* C32: in every state the history has even length and alternates user,
\* assistant from a user turn on, with non-empty generated texts as the
\* assistant entries; a turn whose generation failed leaves the history as
\* it was.
C32_HistoryAlternates ==
    /\ []HistoryWellFormed
    /\ [][(cpc \in Loops /\ Generates /\ last_gen'.kind # "200") =>
             conversation_history' = conversation_history]_cvars

\* Simulation loop: one good turn, then no connection to the generation
\* service; the history holds the good turn only
C32_Witness ==
    /\ cpc = "loop_sim"
    /\ turns = 2
    /\ last_gen.kind = "error"
    /\ Len(conversation_history) = 2
    /\ conversation_history[2].role = "assistant"

====
